---- MODULE Spec2Model ----
(***************************************************************************)
(* A model of node-fogbugz (src/index.js, the current version of the       *)
(* module: lines 482-992).  The state is the token slot of memory-cache    *)
(* and the invocations of the public operations, each with its Q deferred  *)
(* and its outstanding transport request.  The transport (request) and the *)
(* XML parser (xml2js) are collaborators: the transport answers a request  *)
(* at any later time with an error or a body, and a body is given by what  *)
(* xml2js makes of it (a parse error or the parsed tree).                  *)
(***************************************************************************)
EXTENDS Integers, Sequences, FiniteSets, TLC

(***************************************************************************)
(* JavaScript values.  A value is a record [tag, val].  A string is a      *)
(* sequence of pieces: the blank " ", the comma "," or a run of other      *)
(* characters, so that trim, split and join are computed, not assumed.     *)
(***************************************************************************)
Undef == [tag |-> "undefined", val |-> <<>>]

Null == [tag |-> "null", val |-> <<>>]

Txt(s) == [tag |-> "string", val |-> s]

Arr(s) == [tag |-> "array", val |-> s]

Obj(r) == [tag |-> "object", val |-> r]

Bool(b) == [tag |-> "boolean", val |-> b]

Num(n) == [tag |-> "number", val |-> n]

\* an error value handed over by the transport
TransportErr(e) == [tag |-> "error", val |-> e]

\* new Error(message)
ErrorObj(m) == [tag |-> "Error", val |-> m]

\* ToBoolean
Truthy(v) ==
  CASE v.tag = "undefined" -> FALSE
    [] v.tag = "null" -> FALSE
    [] v.tag = "string" -> v.val # <<>>
    [] v.tag = "boolean" -> v.val
    [] v.tag = "number" -> v.val # 0
    [] OTHER -> TRUE

\* reading a property of v raises a TypeError
NoProps(v) == v.tag \in {"undefined", "null"}

\* v[k] for a property name k (v is neither undefined nor null)
Get(v, k) ==
  IF v.tag = "object" /\ k \in DOMAIN v.val THEN v.val[k] ELSE Undef

\* v[i] for an index i, counted from 0 (v is neither undefined nor null)
Idx(v, i) ==
  CASE v.tag = "array" /\ i + 1 \in DOMAIN v.val -> v.val[i + 1]
    [] v.tag = "string" /\ i + 1 \in DOMAIN v.val -> Txt(<<v.val[i + 1]>>)
    [] OTHER -> Undef

\* v.length
Length(v) == IF v.tag \in {"array", "string"} THEN Len(v.val) ELSE 0

Blank == " "

RECURSIVE TrimLeft(_)
TrimLeft(s) == IF s # <<>> /\ Head(s) = Blank THEN TrimLeft(Tail(s)) ELSE s

RECURSIVE TrimRight(_)
TrimRight(s) ==
  IF s # <<>> /\ s[Len(s)] = Blank THEN TrimRight(SubSeq(s, 1, Len(s) - 1)) ELSE s

\* String.prototype.trim
Trim(s) == TrimRight(TrimLeft(s))

(***************************************************************************)
(* Program constants.                                                      *)
(***************************************************************************)
MODULE_ERRORS ==
  [undefinedToken |-> Txt(<<"token is undefined; you are not logged in">>),
   xmlParseError |-> Txt(<<"invalid xml received from server">>),
   bugNotFound |-> Txt(<<"could not find bug">>),
   unknown |-> Txt(<<"unknown error">>)]

DEFAULT_COLS ==
  Arr(<<Txt(<<"sTitle">>), Txt(<<"sStatus">>), Txt(<<"sPersonAssignedTo">>),
        Txt(<<"sFixFor">>), Txt(<<"tags">>), Txt(<<"sEmailAssignedTo">>)>>)

DEFAULT_MAX == 20

\* conf.protocol and conf.host of the loaded configuration
conf == [protocol |-> "https", host |-> "zzz.fogbugz.com"]

(***************************************************************************)
(* Q deferreds: the first resolve or reject settles the promise, any later *)
(* one is ignored.                                                         *)
(***************************************************************************)
Defer == [state |-> "pending", value |-> Undef]

Resolve(dfrd, v) ==
  IF dfrd.state = "pending" THEN [state |-> "resolved", value |-> v] ELSE dfrd

Reject(dfrd, v) ==
  IF dfrd.state = "pending" THEN [state |-> "rejected", value |-> v] ELSE dfrd

(***************************************************************************)
(* Bounds and the inputs of the model.                                     *)
(***************************************************************************)
MaxOps == 1

MaxSessionOps == 2

MaxNodes == 2

Tokens == {Txt(<<"t1">>), Txt(<<"t2">>)}

TransportErrors == {TransportErr("E1")}

\* what xml2js makes of a body: a parse error, or the tree it hands over
ParseError == [parsed |-> FALSE, res |-> Undef]

Tree(response) == [parsed |-> TRUE, res |-> Obj([response |-> response])]

(***************************************************************************)
(* Response handling shared by the operations.                             *)
(***************************************************************************)
\* _parse(xml, dfrd): the deferred afterwards and the value returned
_parse(xml, dfrd) ==
  IF ~xml.parsed
  THEN [dfrd |-> Reject(dfrd, MODULE_ERRORS.xmlParseError), r |-> Undef]
  ELSE LET error == Get(Get(xml.res, "response"), "error")
       IN IF Truthy(error)
          THEN [dfrd |-> Reject(dfrd, error), r |-> Undef]
          ELSE [dfrd |-> dfrd, r |-> xml.res]

\* _extractEmptyResponse(xml, dfrd): the deferred afterwards
_extractEmptyResponse(xml, dfrd) ==
  IF ~xml.parsed
  THEN Reject(dfrd, Undef)
  ELSE LET error == Get(Get(xml.res, "response"), "error")
       IN IF Truthy(error) THEN Reject(dfrd, error) ELSE dfrd

\* what a transport callback leaves behind: the deferred, the token it put
\* into the store (Undef: none), whether it raised an exception and whether
\* it handed the request to the transport again (no callback does)
Done(dfrd) == [dfrd |-> dfrd, put |-> Undef, threw |-> FALSE, again |-> FALSE]

Stored(dfrd, token) == [dfrd |-> dfrd, put |-> token, threw |-> FALSE, again |-> FALSE]

Thrown(dfrd) == [dfrd |-> dfrd, put |-> Undef, threw |-> TRUE, again |-> FALSE]

\* logoffCallback with the token forgotten once the service has logged off
logoffCallbackForgets(err, body, dfrd) ==
  IF Truthy(err)
  THEN Done(Reject(dfrd, err))
  ELSE Stored(Resolve(dfrd, Bool(TRUE)), Null)

\* logoff's callback: function(err)
logoffCallback(err, body, dfrd) ==
  IF Truthy(err) THEN Done(Reject(dfrd, err)) ELSE Done(Resolve(dfrd, Bool(TRUE)))

\* logon's callback, with extractToken inlined
logonCallback(err, body, dfrd) ==
  IF Truthy(err)
  THEN Done(Reject(dfrd, err))
  ELSE LET p == _parse(body, dfrd)
           token == Get(Get(p.r, "response"), "token")
           newToken == IF Truthy(p.r) THEN Idx(token, 0) ELSE Undef
       IN IF Truthy(p.r) /\ NoProps(token)
          THEN Thrown(p.dfrd)
          ELSE IF ~Truthy(newToken)
               THEN Done(Reject(p.dfrd, MODULE_ERRORS.unknown))
               ELSE Stored(Resolve(p.dfrd,
                                   Obj([token |-> newToken, cached |-> Bool(FALSE)])),
                           newToken)

\* setCurrentFilterCallback with the token forgotten on a transport error
setCurrentFilterCallbackForgets(err, body, dfrd) ==
  IF Truthy(err)
  THEN Stored(Reject(dfrd, err), Null)
  ELSE Done(Resolve(_extractEmptyResponse(body, dfrd), Bool(TRUE)))

\* setCurrentFilterCallback with resolve(true) ahead of the error check
setCurrentFilterCallbackResolvesFirst(err, body, dfrd) ==
  IF Truthy(err)
  THEN Done(Reject(dfrd, err))
  ELSE Done(_extractEmptyResponse(body, Resolve(dfrd, Bool(TRUE))))

\* setCurrentFilter's callback
setCurrentFilterCallback(err, body, dfrd) ==
  IF Truthy(err)
  THEN Done(Reject(dfrd, err))
  ELSE Done(Resolve(_extractEmptyResponse(body, dfrd), Bool(TRUE)))

(***************************************************************************)
(* Filters (listFilters).                                                  *)
(***************************************************************************)
\* what util.format puts in place of a %s
Str(v) ==
  CASE v.tag = "string" -> v.val
    [] v.tag = "undefined" -> <<"undefined">>
    [] OTHER -> <<"[object Object]">>

\* filterUrl with the mask of the case URL
filterUrlAsCase(id) ==
  Txt(<<conf.protocol, "://", conf.host, "/default.asp?">> \o Str(id))

\* format('%s://%s/default.asp?pgx=LF&ixFilter=%s', conf.protocol, conf.host, id)
filterUrl(id) ==
  Txt(<<conf.protocol, "://", conf.host, "/default.asp?pgx=LF&ixFilter=">> \o Str(id))

\* the function mapped over the filter nodes raises a TypeError on this node
filterThrows(filter) ==
  \/ Get(filter, "_").tag # "string"
  \/ NoProps(Get(filter, "$"))

\* new Filter({name, type, id, url}) of one filter node
makeFilter(filter) ==
  Obj([name |-> Txt(Trim(Get(filter, "_").val)),
       type |-> Get(Get(filter, "$"), "type"),
       id |-> Get(Get(filter, "$"), "sFilter"),
       url |-> filterUrl(Get(Get(filter, "$"), "sFilter"))])

\* listFilters' extractFilters(xml): the deferred afterwards, the value
\* returned, and whether it raised an exception
extractFilters(xml, dfrd) ==
  LET p == _parse(xml, dfrd)
      filters == Get(Get(p.r, "response"), "filters")
      list == Get(Idx(filters, 0), "filter")
  IN IF ~Truthy(p.r)
     THEN [dfrd |-> p.dfrd, value |-> Undef, threw |-> FALSE]
     ELSE IF \/ NoProps(filters)
             \/ NoProps(Idx(filters, 0))
             \/ list.tag # "array"
             \/ \E i \in DOMAIN list.val : filterThrows(list.val[i])
          THEN [dfrd |-> p.dfrd, value |-> Undef, threw |-> TRUE]
          ELSE [dfrd |-> p.dfrd,
                value |-> Arr([i \in DOMAIN list.val |-> makeFilter(list.val[i])]),
                threw |-> FALSE]

\* listFilters' callback
listFiltersCallback(err, body, dfrd) ==
  IF Truthy(err)
  THEN Done(Reject(dfrd, err))
  ELSE LET e == extractFilters(body, dfrd)
       IN IF e.threw
          THEN Thrown(e.dfrd)
          ELSE IF Truthy(e.value) /\ Length(e.value) > 0
               THEN Done(Resolve(e.dfrd, extractFilters(body, e.dfrd).value))
               ELSE Done(Reject(e.dfrd, MODULE_ERRORS.unknown))

(***************************************************************************)
(* Cases (search, editBug).                                                *)
(***************************************************************************)
Comma == ","

\* the pieces of s before its first comma
RECURSIVE UpToComma(_)
UpToComma(s) ==
  IF s = <<>> \/ Head(s) = Comma THEN <<>> ELSE <<Head(s)>> \o UpToComma(Tail(s))

\* Split with every part trimmed
RECURSIVE SplitTrimmed(_)
SplitTrimmed(s) ==
  LET first == UpToComma(s)
  IN IF Len(first) = Len(s)
     THEN <<Txt(Trim(first))>>
     ELSE <<Txt(Trim(first))>> \o SplitTrimmed(SubSeq(s, Len(first) + 2, Len(s)))

\* String.prototype.split(','): the sequence of the parts of s
RECURSIVE Split(_)
Split(s) ==
  LET first == UpToComma(s)
  IN IF Len(first) = Len(s)
     THEN <<Txt(first)>>
     ELSE <<Txt(first)>> \o Split(SubSeq(s, Len(first) + 2, Len(s)))

\* Array.prototype.join(sep) of a sequence of values
RECURSIVE Join(_, _)
Join(vs, sep) ==
  IF vs = <<>> THEN <<>>
  ELSE IF Len(vs) = 1 THEN Str(vs[1])
  ELSE Str(vs[1]) \o sep \o Join(Tail(vs), sep)

\* format('%s://%s/default.asp?%s', conf.protocol, conf.host, kase.$.ixBug)
caseUrl(id) == Txt(<<conf.protocol, "://", conf.host, "/default.asp?">> \o Str(id))

\* kase[field][0].trim() raises a TypeError
textThrows(kase, field) ==
  \/ NoProps(Get(kase, field))
  \/ Idx(Get(kase, field), 0).tag # "string"

\* kase[field][0].trim()
text(kase, field) == Txt(Trim(Idx(Get(kase, field), 0).val))

\* if (kase.tags && kase.tags[0].tag)
hasTags(kase) ==
  Truthy(Get(kase, "tags")) /\ Truthy(Get(Idx(Get(kase, "tags"), 0), "tag"))

\* the keys of bug when the leftover keys are computed
bugKeys(kase) ==
  {"id", "operations", "title", "status", "url", "fixFor"}
    \cup (IF Truthy(Get(kase, "sPersonAssignedTo"))
          THEN {"assignedTo", "assignedToEmail"} ELSE {})
    \cup (IF hasTags(kase) THEN {"tags"} ELSE {})

\* _(kase).keys().difference(_.keys(bug).concat('sTitle', ...))
leftover(kase) ==
  DOMAIN kase.val \ (bugKeys(kase) \cup {"sTitle", "sStatus", "$", "sFixFor",
                                          "sPersonAssignedTo", "sEmailAssignedTo"})

\* dereference without the trim
dereferenceUntrimmed(value) ==
  IF value.tag = "array" /\ Len(value.val) = 1 THEN value.val[1] ELSE value

\* the value copied onto bug for a leftover key
dereference(value) ==
  IF value.tag = "array" /\ Len(value.val) = 1
  THEN Txt(Trim(value.val[1].val))
  ELSE value

\* the function mapped over the case nodes raises a TypeError on this node
caseThrows(kase) ==
  \/ NoProps(Get(kase, "$"))
  \/ Get(Get(kase, "$"), "operations").tag # "string"
  \/ textThrows(kase, "sTitle")
  \/ textThrows(kase, "sStatus")
  \/ textThrows(kase, "sFixFor")
  \/ /\ Truthy(Get(kase, "sPersonAssignedTo"))
     /\ textThrows(kase, "sPersonAssignedTo") \/ textThrows(kase, "sEmailAssignedTo")
  \/ /\ Truthy(Get(kase, "tags"))
     /\ \/ NoProps(Idx(Get(kase, "tags"), 0))
        \/ hasTags(kase) /\ Get(Idx(Get(kase, "tags"), 0), "tag").tag # "array"
  \/ \E key \in leftover(kase) :
        /\ kase.val[key].tag = "array"
        /\ Len(kase.val[key].val) = 1
        /\ kase.val[key].val[1].tag # "string"

\* the Case made of one case node (the same code in search, lines 802-835,
\* and in editBug, lines 901-934)
makeCase(kase) ==
  LET attrs == Get(kase, "$")
      bug == [id |-> Get(attrs, "ixBug"),
              operations |-> Arr(Split(Get(attrs, "operations").val)),
              title |-> text(kase, "sTitle"),
              status |-> text(kase, "sStatus"),
              url |-> caseUrl(Get(attrs, "ixBug")),
              fixFor |-> text(kase, "sFixFor")]
      assignee == IF Truthy(Get(kase, "sPersonAssignedTo"))
                  THEN [assignedTo |-> text(kase, "sPersonAssignedTo"),
                        assignedToEmail |-> text(kase, "sEmailAssignedTo")]
                  ELSE [k \in {} |-> Undef]
      tags == IF hasTags(kase)
              THEN [tags |-> Txt(Join(Get(Idx(Get(kase, "tags"), 0), "tag").val,
                                       <<Comma, Blank>>))]
              ELSE [k \in {} |-> Undef]
      rest == [key \in leftover(kase) |-> dereference(kase.val[key])]
  IN Obj(("_raw" :> kase) @@ rest @@ tags @@ assignee @@ bug)

\* cases.length > 1 ? cases : cases[0], for the mapped case nodes
caseResult(list) ==
  LET cases == [i \in DOMAIN list |-> makeCase(list[i])]
  IN IF Len(cases) > 1 THEN Arr(cases)
     ELSE IF Len(cases) = 1 THEN cases[1] ELSE Undef

\* searchExtractCases with the rejection editBug's extractCases makes
searchExtractCasesAsEditBug(xml, dfrd) ==
  LET p == _parse(xml, dfrd)
      response == Get(p.r, "response")
      cases == Get(response, "cases")
      list == Get(Idx(cases, 0), "case")
  IN IF \/ ~Truthy(p.r)
        \/ ~Truthy(response)
        \/ ~Truthy(cases)
        \/ Length(cases) = 0
        \/ ~Truthy(list)
     THEN [dfrd |-> Reject(p.dfrd, ErrorObj(MODULE_ERRORS.xmlParseError)),
           value |-> Undef, threw |-> FALSE]
     ELSE IF list.tag # "array" \/ \E i \in DOMAIN list.val : caseThrows(list.val[i])
          THEN [dfrd |-> p.dfrd, value |-> Undef, threw |-> TRUE]
          ELSE [dfrd |-> p.dfrd, value |-> caseResult(list.val), threw |-> FALSE]

\* search's extractCases(xml): the deferred afterwards, the value returned,
\* and whether it raised an exception
searchExtractCases(xml, dfrd) ==
  LET p == _parse(xml, dfrd)
      response == Get(p.r, "response")
      cases == Get(response, "cases")
      list == Get(Idx(cases, 0), "case")
  IN IF \/ ~Truthy(p.r)
        \/ ~Truthy(response)
        \/ ~Truthy(cases)
        \/ Length(cases) = 0
        \/ ~Truthy(list)
     THEN [dfrd |-> Reject(p.dfrd, MODULE_ERRORS.bugNotFound),
           value |-> Undef, threw |-> FALSE]
     ELSE IF list.tag # "array" \/ \E i \in DOMAIN list.val : caseThrows(list.val[i])
          THEN [dfrd |-> p.dfrd, value |-> Undef, threw |-> TRUE]
          ELSE [dfrd |-> p.dfrd, value |-> caseResult(list.val), threw |-> FALSE]

\* editBugExtractCases with the rejection search's extractCases makes
editBugExtractCasesAsSearch(xml, dfrd) ==
  LET p == _parse(xml, dfrd)
      response == Get(p.r, "response")
      list == Get(response, "case")
  IN IF \/ ~Truthy(p.r)
        \/ ~Truthy(response)
        \/ ~Truthy(list)
        \/ Length(list) = 0
     THEN [dfrd |-> Reject(p.dfrd, MODULE_ERRORS.bugNotFound),
           value |-> Undef, threw |-> FALSE]
     ELSE IF list.tag # "array" \/ \E i \in DOMAIN list.val : caseThrows(list.val[i])
          THEN [dfrd |-> p.dfrd, value |-> Undef, threw |-> TRUE]
          ELSE [dfrd |-> p.dfrd, value |-> caseResult(list.val), threw |-> FALSE]

\* editBug's extractCases(xml)
editBugExtractCases(xml, dfrd) ==
  LET p == _parse(xml, dfrd)
      response == Get(p.r, "response")
      list == Get(response, "case")
  IN IF \/ ~Truthy(p.r)
        \/ ~Truthy(response)
        \/ ~Truthy(list)
        \/ Length(list) = 0
     THEN [dfrd |-> Reject(p.dfrd, ErrorObj(MODULE_ERRORS.xmlParseError)),
           value |-> Undef, threw |-> FALSE]
     ELSE IF list.tag # "array" \/ \E i \in DOMAIN list.val : caseThrows(list.val[i])
          THEN [dfrd |-> p.dfrd, value |-> Undef, threw |-> TRUE]
          ELSE [dfrd |-> p.dfrd, value |-> caseResult(list.val), threw |-> FALSE]

\* the rest of the callbacks of search and editBug, after extractCases
casesCallback(e) ==
  IF e.threw
  THEN Thrown(e.dfrd)
  ELSE IF ~Truthy(e.value)
       THEN Done(Reject(e.dfrd, MODULE_ERRORS.unknown))
       ELSE Done(Resolve(e.dfrd, e.value))

\* a callback that hands the request to the transport once more
Again(dfrd) == [dfrd |-> dfrd, put |-> Undef, threw |-> FALSE, again |-> TRUE]

\* searchCallback with a retry after a transport error
searchCallbackRetries(err, body, dfrd) ==
  IF Truthy(err)
  THEN Again(dfrd)
  ELSE casesCallback(searchExtractCases(body, dfrd))

\* search's callback
searchCallback(err, body, dfrd) ==
  IF Truthy(err)
  THEN Done(Reject(dfrd, err))
  ELSE casesCallback(searchExtractCases(body, dfrd))

\* editBug's callback
editBugCallback(err, body, dfrd) ==
  IF Truthy(err)
  THEN Done(Reject(dfrd, err))
  ELSE casesCallback(editBugExtractCases(body, dfrd))

\* the callback an operation hands to the transport
Callback(kind, err, body, dfrd) ==
  CASE kind = "logon" -> logonCallback(err, body, dfrd)
    [] kind = "logoff" -> logoffCallback(err, body, dfrd)
    [] kind = "listFilters" -> listFiltersCallback(err, body, dfrd)
    [] kind = "setCurrentFilter" -> setCurrentFilterCallback(err, body, dfrd)
    [] kind = "search" -> searchCallback(err, body, dfrd)
    [] kind = "editBug" -> editBugCallback(err, body, dfrd)

(***************************************************************************)
(* The state.                                                              *)
(*   cache : the value memory-cache holds under 'token' (Null: none)       *)
(*   ops   : the invocations of the public operations, in call order; each *)
(*           holds the operation's local token, its deferred, the request  *)
(*           it handed to the transport (Undef: none), what the transport  *)
(*           answered, whether the call or its callback raised, how often  *)
(*           it called the transport and, for search, the arguments passed *)
(*   last  : the handler that ran last, and the invocation it belongs to   *)
(***************************************************************************)
VARIABLES cache, ops, last

vars == <<cache, ops, last>>

IsUndef(v) == v.tag = "undefined"

NoReply == [got |-> FALSE, err |-> Undef, body |-> ParseError]

Reply(err, body) == [got |-> TRUE, err |-> err, body |-> body]

\* an invocation as the call leaves it
Invocation(kind, token, dfrd, request, threw) ==
  [kind |-> kind, token |-> token, dfrd |-> dfrd, request |-> request,
   reply |-> NoReply, threw |-> threw,
   sent |-> IF IsUndef(request) THEN 0 ELSE 1, args |-> Undef]

\* the invocation of a call made with these arguments
Called(invocation, args) == [invocation EXCEPT !.args = args]

Ran(handler, i) == [handler |-> handler, i |-> i]

Init ==
  /\ cache = Null
  /\ ops = <<>>
  /\ last = Ran("init", 0)

\* forgetToken(): cache.del('token')
forgetToken ==
  /\ cache' = Null
  /\ last' = Ran("forgetToken", 0)
  /\ UNCHANGED ops

\* setToken that leaves a token already stored in place
setTokenIfAbsent(token) ==
  /\ cache' = IF Truthy(cache) THEN cache ELSE token
  /\ last' = [handler |-> "setToken", i |-> 0, token |-> token]
  /\ UNCHANGED ops

\* setToken(token): cache.put('token', token)
setToken(token) ==
  /\ cache' = token
  /\ last' = [handler |-> "setToken", i |-> 0, token |-> token]
  /\ UNCHANGED ops

\* the request logoff() hands to the transport: format(URLs.logoff, ...)
logoffRequest(token) == Obj([cmd |-> Txt(<<"logoff">>), token |-> token])

\* logoff()
logoff ==
  LET token == cache
      dfrd == Defer
  IN /\ ops' = Append(ops,
                 IF ~Truthy(token)
                 THEN Invocation("logoff", token,
                                 Reject(dfrd, MODULE_ERRORS.undefinedToken), Undef, FALSE)
                 ELSE Invocation("logoff", token, dfrd, logoffRequest(token), FALSE))
     /\ last' = Ran("logoff", Len(ops) + 1)
     /\ UNCHANGED cache

\* the request logon() hands to the transport: format(URLs.logon, ...)
logonRequest == Obj([cmd |-> Txt(<<"logon">>)])

\* logonCall without the answer from the store
logonCallUncached(token) == [dfrd |-> Defer, request |-> logonRequest]

\* logon(): the deferred and the request when the store holds token
logonCall(token) ==
  [dfrd |-> IF Truthy(token)
            THEN Resolve(Defer, Obj([token |-> token, cached |-> Bool(TRUE)]))
            ELSE Defer,
   request |-> logonRequest]

\* logon()
logon ==
  LET token == cache
      call == logonCall(token)
  IN /\ ops' = Append(ops, Invocation("logon", token, call.dfrd, call.request, FALSE))
     /\ last' = Ran("logon", Len(ops) + 1)
     /\ UNCHANGED cache

\* the request listFilters() hands to the transport
listFiltersRequest(token) == Obj([cmd |-> Txt(<<"listFilters">>), token |-> token])

\* listFilters()
listFilters ==
  LET token == cache
      dfrd == Defer
  IN /\ ops' = Append(ops,
                 IF ~Truthy(token)
                 THEN Invocation("listFilters", token,
                                 Reject(dfrd, MODULE_ERRORS.undefinedToken), Undef, FALSE)
                 ELSE Invocation("listFilters", token, dfrd,
                                 listFiltersRequest(token), FALSE))
     /\ last' = Ran("listFilters", Len(ops) + 1)
     /\ UNCHANGED cache

\* the request setCurrentFilter(filter) hands to the transport;
\* id = typeof filter === 'string' ? filter : filter.id
setCurrentFilterRequest(filter, token) ==
  Obj([cmd |-> Txt(<<"setCurrentFilter">>),
       sFilter |-> IF filter.tag = "string" THEN filter ELSE Get(filter, "id"),
       token |-> token])

\* setCurrentFilter(filter)
setCurrentFilter(filter) ==
  LET token == cache
      dfrd == Defer
  IN /\ ops' = Append(ops,
                 IF ~Truthy(token)
                 THEN Invocation("setCurrentFilter", token,
                                 Reject(dfrd, MODULE_ERRORS.undefinedToken), Undef, FALSE)
                 ELSE Invocation("setCurrentFilter", token, dfrd,
                                 setCurrentFilterRequest(filter, token), FALSE))
     /\ last' = Ran("setCurrentFilter", Len(ops) + 1)
     /\ UNCHANGED cache

\* searchRequest with the columns put together as editBug does
searchRequestConcat(query, cols, max, token) ==
  Obj([cmd |-> Txt(<<"search">>),
       token |-> token,
       q |-> query,
       max |-> IF Truthy(max) THEN max ELSE Num(DEFAULT_MAX),
       cols |-> Txt(Join((IF Truthy(cols) THEN cols ELSE Arr(<<>>)).val
                           \o DEFAULT_COLS.val,
                         <<Comma>>))])

\* the request search(query, cols, max) hands to the transport:
\* fields = (cols || DEFAULT_COLS).join(','), max = max || DEFAULT_MAX,
\* q = decodeURIComponent(encodeURIComponent(query)): the query as passed
searchRequest(query, cols, max, token) ==
  Obj([cmd |-> Txt(<<"search">>),
       token |-> token,
       q |-> query,
       max |-> IF Truthy(max) THEN max ELSE Num(DEFAULT_MAX),
       cols |-> Txt(Join((IF Truthy(cols) THEN cols ELSE DEFAULT_COLS).val,
                         <<Comma>>))])

\* search(query, cols, max)
search(query, cols, max) ==
  LET token == cache
      dfrd == Defer
  IN /\ ops' = Append(ops,
                 Called(IF ~Truthy(token)
                        THEN Invocation("search", token,
                                        Reject(dfrd, MODULE_ERRORS.undefinedToken),
                                        Undef, FALSE)
                        ELSE Invocation("search", token, dfrd,
                                        searchRequest(query, cols, max, token), FALSE),
                        Obj([query |-> query, cols |-> cols, max |-> max])))
     /\ last' = Ran("search", Len(ops) + 1)
     /\ UNCHANGED cache

\* getBug(id, cols): return this.search(id, cols, 1)
getBug(id, cols) == search(id, cols, Num(1))

\* the request editBug(id, parameters, cols) hands to the transport:
\* fields = cols.concat(DEFAULT_COLS).join(',')
editBugRequest(id, cols, token) ==
  Obj([cmd |-> Txt(<<"edit">>),
       token |-> token,
       ixBug |-> id,
       cols |-> Txt(Join(cols.val \o DEFAULT_COLS.val, <<Comma>>))])

\* editBug(id, parameters, cols): the invocation it leaves; cols.concat raises
\* a TypeError, before the token is looked at, when cols is not given
editBugCall(id, cols, token) ==
  IF NoProps(cols)
  THEN Invocation("editBug", token, Defer, Undef, TRUE)
  ELSE IF ~Truthy(token)
       THEN Invocation("editBug", token,
                       Reject(Defer, MODULE_ERRORS.undefinedToken), Undef, FALSE)
       ELSE Invocation("editBug", token, Defer, editBugRequest(id, cols, token), FALSE)

\* editBug(id, parameters, cols), with parameters = {}
editBug(id, cols) ==
  /\ ops' = Append(ops, editBugCall(id, cols, cache))
  /\ last' = Ran("editBug", Len(ops) + 1)
  /\ UNCHANGED cache

\* Respond with a callback that puts its token only while the store is as
\* its operation found it
RespondCompareAndSwap(i, err, body) ==
  /\ ~IsUndef(ops[i].request)
  /\ ~ops[i].reply.got
  /\ LET out == Callback(ops[i].kind, err, body, ops[i].dfrd)
     IN /\ ops' = [ops EXCEPT ![i] = [@ EXCEPT !.dfrd = out.dfrd,
                                               !.threw = out.threw,
                                               !.reply = IF out.again THEN NoReply
                                                         ELSE Reply(err, body),
                                               !.sent = IF out.again THEN @ + 1 ELSE @]]
        /\ cache' = IF IsUndef(out.put) \/ cache # ops[i].token THEN cache ELSE out.put
  /\ last' = Ran("callback", i)

\* Respond with a callback that puts its token only into an empty store
RespondFirstWins(i, err, body) ==
  /\ ~IsUndef(ops[i].request)
  /\ ~ops[i].reply.got
  /\ LET out == Callback(ops[i].kind, err, body, ops[i].dfrd)
     IN /\ ops' = [ops EXCEPT ![i] = [@ EXCEPT !.dfrd = out.dfrd,
                                               !.threw = out.threw,
                                               !.reply = IF out.again THEN NoReply
                                                         ELSE Reply(err, body),
                                               !.sent = IF out.again THEN @ + 1 ELSE @]]
        /\ cache' = IF IsUndef(out.put) \/ Truthy(cache) THEN cache ELSE out.put
  /\ last' = Ran("callback", i)

\* the transport answers the request of invocation i: its callback runs
Respond(i, err, body) ==
  /\ ~IsUndef(ops[i].request)
  /\ ~ops[i].reply.got
  /\ LET out == Callback(ops[i].kind, err, body, ops[i].dfrd)
     IN /\ ops' = [ops EXCEPT ![i] = [@ EXCEPT !.dfrd = out.dfrd,
                                               !.threw = out.threw,
                                               !.reply = IF out.again THEN NoReply
                                                         ELSE Reply(err, body),
                                               !.sent = IF out.again THEN @ + 1 ELSE @]]
        /\ cache' = IF IsUndef(out.put) THEN cache ELSE out.put
  /\ last' = Ran("callback", i)

(***************************************************************************)
(* The inputs: what callers pass and what the transport answers.           *)
(***************************************************************************)
ErrorField == Arr(<<Txt(<<"Not", Blank, "logged", Blank, "on">>)>>)

\* <error code="3">Not logged on</error>
CodedErrorField ==
  Arr(<<Obj(("_" :> Txt(<<"Not", Blank, "logged", Blank, "on">>))
              @@ ("$" :> Obj([code |-> Txt(<<"3">>)])))>>)

TokenField(token) == Arr(<<token>>)

\* <filter type="builtin" sFilter="ez"> My Cases </filter>
FilterNode(type, sFilter, name) ==
  Obj(("_" :> name)
        @@ ("$" :> Obj([type |-> Txt(<<type>>), sFilter |-> Txt(<<sFilter>>)])))

EzFilter == FilterNode("builtin", "ez", Txt(<<Blank, "My", Blank, "Cases", Blank>>))

InboxFilter == FilterNode("saved", "inbox", Txt(<<"Inbox">>))

FiltersField(nodes) == Arr(<<Obj([filter |-> Arr(nodes)])>>)

NoKids == [k \in {} |-> Undef]

\* <case ixBug=".." operations="edit,assign"> kids </case>
CaseNode(ixBug, kids) ==
  Obj(("$" :> Obj([ixBug |-> Txt(<<ixBug>>),
                   operations |-> Txt(<<"edit", Comma, "assign">>)])) @@ kids)

\* one text child: <name> text </name>
Kid(name, pieces) == name :> Arr(<<Txt(pieces)>>)

TitleAndStatus ==
  Kid("sTitle", <<"AQ", Blank, "toolkit">>) @@ Kid("sStatus", <<Blank, "Active", Blank>>)

FixFor == Kid("sFixFor", <<"whenever">>)

\* the children the default columns yield, choice by choice
RequiredKids == {TitleAndStatus @@ FixFor, TitleAndStatus}

AssigneeKids ==
  {NoKids,
   Kid("sPersonAssignedTo", <<Blank, "Ann">>) @@ Kid("sEmailAssignedTo", <<"ann@x", Blank>>),
   Kid("sPersonAssignedTo", <<Blank, "Ann">>),
   Kid("sEmailAssignedTo", <<"ann@x", Blank>>)}

TagsKids ==
  {NoKids,
   "tags" :> Arr(<<Txt(<<>>)>>),
   "tags" :> Arr(<<Obj([tag |-> Arr(<<Txt(<<"ui">>), Txt(<<"api">>)>>)])>>)}

\* children outside the modelled fields: a text, a sequence of two, and an
\* element that carries an attribute
OtherKids ==
  {NoKids,
   Kid("sFooBar", <<Blank, "FOO", Blank, "FOO", Blank>>),
   "sArea" :> Arr(<<Txt(<<"a1">>), Txt(<<Blank, "a2">>)>>),
   "sProject" :> Arr(<<Obj(("_" :> Txt(<<"p">>)) @@ ("$" :> Obj([ixProject |-> Txt(<<"7">>)])))>>)}

CaseNodes ==
  {CaseNode("16006", r @@ a @@ t @@ o) :
     r \in RequiredKids, a \in AssigneeKids, t \in TagsKids, o \in OtherKids}

\* the case node of test/fogbugz.spec.js
TestCase(ixBug) ==
  CaseNode(ixBug, TitleAndStatus @@ FixFor @@ Kid("sFooBar", <<"FOO", Blank, "FOO">>))

\* <cases count=".."> nodes </cases>
CasesField(nodes) ==
  Arr(<<Obj(("$" :> Obj([count |-> Txt(<<"7">>)])) @@ ("case" :> Arr(nodes)))>>)

\* <cases count="0"></cases>
NoCases == Arr(<<Obj("$" :> Obj([count |-> Txt(<<"0">>)]))>>)

EmptyResponse == Tree(Txt(<<>>))

\* a response with an error field beside every field an operation looks for
ErrorAndAll ==
  Tree(Obj(("error" :> ErrorField)
           @@ ("token" :> TokenField(Txt(<<"t1">>)))
           @@ ("filters" :> FiltersField(<<EzFilter>>))
           @@ ("cases" :> CasesField(<<TestCase("16006")>>))
           @@ ("case" :> Arr(<<TestCase("16006")>>))))

\* the bodies that matter to logon and logoff
SessionBodies ==
  {ParseError, EmptyResponse, Tree(Obj([error |-> ErrorField])), ErrorAndAll}
    \cup {Tree(Obj([token |-> TokenField(t)])) : t \in Tokens}

\* the bodies the transport answers with
Bodies ==
  SessionBodies
    \cup {Tree(Obj([filters |-> FiltersField(<<EzFilter, InboxFilter>>)])),
          Tree(Obj([cases |-> CasesField(<<TestCase("16006")>>)])),
          Tree(Obj("case" :> Arr(<<TestCase("16006")>>))),
          Tree(Obj([error |-> CodedErrorField]))}

\* what a transport callback is invoked with
RepliesOf(bodies) ==
  {Reply(e, ParseError) : e \in TransportErrors} \cup {Reply(Null, b) : b \in bodies}

Queries == {Txt(<<"16227">>)}

ColsArgs == {Undef, Arr(<<Txt(<<"sFooBar">>)>>)}

MaxArgs == {Undef, Num(0), Num(5)}

FilterArgs == {Txt(<<"ez">>), makeFilter(InboxFilter)}

\* every operation, at most MaxOps invocations
Next ==
  \/ forgetToken
  \/ \E token \in Tokens : setToken(token)
  \/ Len(ops) < MaxOps /\ logoff
  \/ Len(ops) < MaxOps /\ logon
  \/ Len(ops) < MaxOps /\ listFilters
  \/ Len(ops) < MaxOps /\ \E filter \in FilterArgs : setCurrentFilter(filter)
  \/ Len(ops) < MaxOps /\ \E q \in Queries, cols \in ColsArgs, max \in MaxArgs :
                              search(q, cols, max)
  \/ Len(ops) < MaxOps /\ \E id \in Queries, cols \in ColsArgs : getBug(id, cols)
  \/ Len(ops) < MaxOps /\ \E id \in Queries, cols \in ColsArgs : editBug(id, cols)
  \/ \E i \in DOMAIN ops, reply \in RepliesOf(Bodies) : Respond(i, reply.err, reply.body)

Spec == Init /\ [][Next]_vars

\* the session: the token store, logon and logoff, at most MaxSessionOps
\* invocations whose requests may be outstanding together
SessionNext ==
  \/ forgetToken
  \/ \E token \in Tokens : setToken(token)
  \/ Len(ops) < MaxSessionOps /\ logoff
  \/ Len(ops) < MaxSessionOps /\ logon
  \/ \E i \in DOMAIN ops, reply \in RepliesOf(SessionBodies) :
        Respond(i, reply.err, reply.body)

SessionSpec == Init /\ [][SessionNext]_vars

(***************************************************************************)
(* The extractors on their own: one invocation of listFilters, search or   *)
(* editBug with a token stored, answered with any of the responses below.  *)
(***************************************************************************)
\* the non-empty sequences of at most n elements of S
SeqsUpTo(S, n) == UNION {[1..k -> S] : k \in 1..n}

FilterNodes ==
  {EzFilter, InboxFilter,
   Obj(("_" :> Txt(<<"Mine", Blank>>))
        @@ ("$" :> Obj([type |-> Txt(<<"shared">>), sFilter |-> Txt(<<"98">>),
                        status |-> Txt(<<"current">>)])))}

\* the case nodes that responses with several cases are made of
ListNodes == {TestCase("1"), TestCase("2"), CaseNode("3", TitleAndStatus)}

\* <case ixBug="16007" operations="edit, assign "> with its default children
SpacedCase ==
  Obj(("$" :> Obj([ixBug |-> Txt(<<"16007">>),
                   operations |-> Txt(<<"edit", Comma, Blank, "assign", Blank>>)]))
        @@ TitleAndStatus @@ FixFor)

CaseLists ==
  {<<n>> : n \in CaseNodes \cup {SpacedCase}}
    \cup (SeqsUpTo(ListNodes, MaxNodes) \ SeqsUpTo(ListNodes, 1))

ExtractBodies ==
  {Tree(Obj([filters |-> FiltersField(nodes)])) : nodes \in SeqsUpTo(FilterNodes, MaxNodes)}
    \cup {Tree(Obj([cases |-> CasesField(nodes)])) : nodes \in CaseLists}
    \cup {Tree(Obj("case" :> Arr(nodes))) : nodes \in CaseLists}
    \cup {EmptyResponse, Tree(Obj([cases |-> NoCases])),
          Tree(Obj([cases |-> Arr(<<Txt(<<>>)>>)]))}

ExtractInit ==
  /\ cache \in Tokens
  /\ ops = <<>>
  /\ last = Ran("init", 0)

ExtractNext ==
  \/ ops = <<>> /\ listFilters
  \/ ops = <<>> /\ \E q \in Queries, cols \in ColsArgs, max \in MaxArgs :
                      search(q, cols, max)
  \/ ops = <<>> /\ \E id \in Queries, cols \in ColsArgs : getBug(id, cols)
  \/ ops = <<>> /\ \E id \in Queries : editBug(id, Arr(<<>>))
  \/ \E i \in DOMAIN ops, body \in ExtractBodies : Respond(i, Null, body)

ExtractSpec == ExtractInit /\ [][ExtractNext]_vars

(***************************************************************************)
(* Properties.                                                             *)
(***************************************************************************)
\* the callback of op ran without a transport error
Answered(op) == op.reply.got /\ ~Truthy(op.reply.err)

\* the top-level node of a parsed body
ResponseOf(body) == Get(body.res, "response")

HasErrorField(body) == body.parsed /\ Truthy(Get(ResponseOf(body), "error"))

ErrorFree(body) == body.parsed /\ ~Truthy(Get(ResponseOf(body), "error"))

Resolved(v) == [state |-> "resolved", value |-> v]

Rejected(v) == [state |-> "rejected", value |-> v]

LogonResult(token, cached) == Obj([token |-> token, cached |-> Bool(cached)])

\* an error-free response whose token is T
IsTokenResponse(body, T) ==
  /\ ErrorFree(body)
  /\ Get(ResponseOf(body), "token").tag = "array"
  /\ Get(ResponseOf(body), "token").val = <<T>>

\* C1: a logon() made with an empty store and answered with a response
\* whose token is T resolves with {token: T, cached: false} and its callback
\* leaves T in the store; a logon() made while T is stored resolves with
\* {token: T, cached: true}.
C1_LogonThenCached ==
  \A i \in DOMAIN ops :
    ops[i].kind = "logon" =>
      /\ Truthy(ops[i].token) =>
           ops[i].dfrd = Resolved(LogonResult(ops[i].token, TRUE))
      /\ \A T \in Tokens :
           (~Truthy(ops[i].token) /\ Answered(ops[i])
              /\ IsTokenResponse(ops[i].reply.body, T)) =>
             /\ ops[i].dfrd = Resolved(LogonResult(T, FALSE))
             /\ last = Ran("callback", i) => cache = T

\* a first logon resolved from the network, a second one from the store
C1_Witness ==
  \E i, j \in DOMAIN ops, T \in Tokens :
    /\ i < j
    /\ ops[i].kind = "logon" /\ ops[j].kind = "logon"
    /\ ~Truthy(ops[i].token)
    /\ ops[i].dfrd = Resolved(LogonResult(T, FALSE))
    /\ ops[j].token = T
    /\ ops[j].dfrd = Resolved(LogonResult(T, TRUE))
    /\ cache = T

\* C2: a logon() made while a token is stored hands no request to the
\* transport.
C2_CachedLogonSendsNothing ==
  \A i \in DOMAIN ops :
    (ops[i].kind = "logon" /\ Truthy(ops[i].token)) => IsUndef(ops[i].request)

NeedsToken == {"logoff", "search", "listFilters", "setCurrentFilter", "editBug"}

\* C3: logoff, search, listFilters, setCurrentFilter and editBug, invoked
\* while the store is empty, reject with the undefined-token error and hand
\* no request to the transport.
C3_NoTokenRejects ==
  \A i \in DOMAIN ops :
    (ops[i].kind \in NeedsToken /\ ~Truthy(ops[i].token)) =>
      /\ ops[i].dfrd = Rejected(MODULE_ERRORS.undefinedToken)
      /\ IsUndef(ops[i].request)

\* C4: whatever the operation and the store, a transport callback invoked
\* with an error E leaves the operation's promise rejected with E.
C4_TransportErrorRejects ==
  \A i \in DOMAIN ops :
    (ops[i].reply.got /\ Truthy(ops[i].reply.err)) =>
      ops[i].dfrd = Rejected(ops[i].reply.err)

\* C5: for every operation, a response whose top-level node has an error
\* field leaves the promise rejected with that field's value, never resolved.
C5_ServiceErrorRejects ==
  \A i \in DOMAIN ops :
    (Answered(ops[i]) /\ HasErrorField(ops[i].reply.body)) =>
      ops[i].dfrd = Rejected(Get(ResponseOf(ops[i].reply.body), "error"))

\* the case nodes of a search response (response.cases[0].case)
SearchNodes(body) == Get(Idx(Get(ResponseOf(body), "cases"), 0), "case")

\* the case nodes of an edit response (response.case)
EditNodes(body) == Get(ResponseOf(body), "case")

\* C6: search() on an error-free response with one case node resolves to a
\* single Case, not a sequence; with two or more case nodes it resolves to
\* a sequence with one Case per node, in document order.
C6_SingleOrSequence ==
  \A i \in DOMAIN ops :
    (ops[i].kind = "search" /\ Answered(ops[i]) /\ ErrorFree(ops[i].reply.body)
       /\ SearchNodes(ops[i].reply.body).tag = "array") =>
      LET nodes == SearchNodes(ops[i].reply.body).val
          value == ops[i].dfrd.value
      IN /\ ops[i].dfrd.state = "resolved"
         /\ Len(nodes) = 1 => value.tag = "object" /\ value.val["_raw"] = nodes[1]
         /\ Len(nodes) > 1 =>
              /\ value.tag = "array"
              /\ Len(value.val) = Len(nodes)
              /\ \A j \in DOMAIN nodes : value.val[j].val["_raw"] = nodes[j]

\* the case nodes an invocation of search or editBug was answered with
NodesOf(op) ==
  IF op.kind = "search" THEN SearchNodes(op.reply.body).val
  ELSE EditNodes(op.reply.body).val

\* the Cases an invocation of search or editBug resolved with, as a sequence
CasesOf(op) ==
  IF op.dfrd.value.tag = "array" THEN op.dfrd.value.val ELSE <<op.dfrd.value>>

ModelledKids ==
  {"sTitle", "sStatus", "sFixFor", "sPersonAssignedTo", "sEmailAssignedTo", "tags", "$"}

\* C7: a Case returned by search or editBug has a field for every child key
\* of its case node outside the modelled source fields and the attribute
\* key; where the node holds a length-1 sequence of a string under the key,
\* the field is that string trimmed; and _raw is the whole case node.
C7_ResidualFields ==
  \A i \in DOMAIN ops :
    (ops[i].kind \in {"search", "editBug"} /\ ops[i].dfrd.state = "resolved") =>
      /\ Len(CasesOf(ops[i])) = Len(NodesOf(ops[i]))
      /\ \A j \in DOMAIN NodesOf(ops[i]) :
           LET node == NodesOf(ops[i])[j]
               bug == CasesOf(ops[i])[j].val
           IN /\ bug["_raw"] = node
              /\ \A k \in DOMAIN node.val \ ModelledKids :
                   /\ k \in DOMAIN bug
                   /\ (node.val[k].tag = "array" /\ Len(node.val[k].val) = 1
                         /\ node.val[k].val[1].tag = "string") =>
                        bug[k] = Txt(Trim(node.val[k].val[1].val))

\* a Case whose sFooBar is the node's " FOO FOO " without the blanks around
C7_Witness ==
  \E i \in DOMAIN ops :
    /\ ops[i].kind \in {"search", "editBug"}
    /\ ops[i].dfrd.state = "resolved"
    /\ ops[i].dfrd.value.tag = "object"
    /\ "sFooBar" \in DOMAIN ops[i].dfrd.value.val
    /\ Get(ops[i].dfrd.value.val["_raw"], "sFooBar")
         = Arr(<<Txt(<<Blank, "FOO", Blank, "FOO", Blank>>)>>)
    /\ ops[i].dfrd.value.val["sFooBar"] = Txt(<<"FOO", Blank, "FOO">>)

\* the filter nodes of a listFilters response (response.filters[0].filter)
FilterNodesOf(body) == Get(Idx(Get(ResponseOf(body), "filters"), 0), "filter")

\* the Filter record C8 describes for one filter node
DescribedFilter(node) ==
  Obj([name |-> Txt(Trim(Get(node, "_").val)),
       type |-> Get(Get(node, "$"), "type"),
       id |-> Get(Get(node, "$"), "sFilter"),
       url |-> Txt(<<conf.protocol, "://", conf.host, "/default.asp?pgx=LF&ixFilter=">>
                     \o Get(Get(node, "$"), "sFilter").val)])

\* C8: listFilters() on an error-free response with n >= 1 filter nodes
\* resolves to the sequence of the n Filter records, in document order,
\* each with type, id, trimmed name and derived url of its node.
C8_FilterRecords ==
  \A i \in DOMAIN ops :
    (ops[i].kind = "listFilters" /\ Answered(ops[i]) /\ ErrorFree(ops[i].reply.body)
       /\ FilterNodesOf(ops[i].reply.body).tag = "array") =>
      LET nodes == FilterNodesOf(ops[i].reply.body).val
      IN ops[i].dfrd = Resolved(Arr([j \in DOMAIN nodes |-> DescribedFilter(nodes[j])]))

\* two filters, the first with its name trimmed
C8_Witness ==
  \E i \in DOMAIN ops :
    /\ ops[i].kind = "listFilters"
    /\ ops[i].dfrd.state = "resolved"
    /\ Len(ops[i].dfrd.value.val) = 2
    /\ ops[i].dfrd.value.val[1].val.name = Txt(<<"My", Blank, "Cases">>)
    /\ ops[i].dfrd.value.val[1].val.url
         = Txt(<<"https", "://", "zzz.fogbugz.com", "/default.asp?pgx=LF&ixFilter=", "ez">>)
    /\ ops[i].dfrd.value.val[2].val.id = Txt(<<"inbox">>)

\* C9: the call of logoff() and the callback that resolves it with true
\* leave the stored token as it is.
C9_LogoffKeepsToken ==
  [][\A i \in DOMAIN ops' :
       (/\ ops'[i].kind = "logoff"
        /\ \/ last' = Ran("logoff", i)
           \/ /\ last' = Ran("callback", i)
              /\ ops'[i].dfrd = Resolved(Bool(TRUE))) => cache' = cache]_vars

\* a logoff resolved with true by its callback, its token still stored
C9_Witness ==
  \E i \in DOMAIN ops :
    /\ ops[i].kind = "logoff"
    /\ last = Ran("callback", i)
    /\ ops[i].dfrd = Resolved(Bool(TRUE))
    /\ Truthy(cache)
    /\ cache = ops[i].token

\* the step is the success branch of a logon callback, which stores the
\* token of the response
LogonStores ==
  /\ last'.handler = "callback"
  /\ ops'[last'.i].kind = "logon"
  /\ Answered(ops'[last'.i])
  /\ ErrorFree(ops'[last'.i].reply.body)
  /\ cache' = Idx(Get(ResponseOf(ops'[last'.i].reply.body), "token"), 0)

\* C10: the store changes only in setToken, in forgetToken and in the
\* success branch of a logon callback; a step that rejects a promise leaves
\* the store as it is.
C10_StoreWriters ==
  [][/\ cache' # cache =>
          \/ last'.handler \in {"setToken", "forgetToken"}
          \/ LogonStores
     /\ \A i \in DOMAIN ops' :
          (/\ ops'[i].dfrd.state = "rejected"
           /\ i \in DOMAIN ops => ops[i].dfrd.state = "pending") => cache' = cache]_vars

\* a promise rejected by its callback while the store keeps its token
C10_Witness ==
  \E i \in DOMAIN ops :
    /\ last = Ran("callback", i)
    /\ ops[i].dfrd.state = "rejected"
    /\ Truthy(cache)
    /\ cache = ops[i].token

\* op is an editBug() made with a token stored and answered with an
\* error-free response that has no top-level case node
EditBugWithoutCase(op) ==
  /\ op.kind = "editBug"
  /\ Truthy(op.token)
  /\ Answered(op)
  /\ ErrorFree(op.reply.body)
  /\ ~Truthy(EditNodes(op.reply.body))

\* C11: editBug(), with a token stored, answered with a response that parses
\* without an error field but has no top-level case node, rejects with an
\* Error whose message is MODULE_ERRORS.xmlParseError.
C11_EditBugNoCase ==
  \A i \in DOMAIN ops :
    EditBugWithoutCase(ops[i]) =>
      /\ ops[i].dfrd.state = "rejected"
      /\ ops[i].dfrd.value.tag = "Error"
      /\ ops[i].dfrd.value.val = MODULE_ERRORS.xmlParseError

\* editBug() answered with <response></response>, as in the test
C11_Witness ==
  \E i \in DOMAIN ops :
    /\ EditBugWithoutCase(ops[i])
    /\ ops[i].reply.body = EmptyResponse
    /\ ops[i].dfrd.state = "rejected"

\* op is a search() made with a token stored and answered with an error-free
\* response whose cases element is missing or has no case node
SearchWithoutCase(op) ==
  /\ op.kind = "search"
  /\ Truthy(op.token)
  /\ Answered(op)
  /\ ErrorFree(op.reply.body)
  /\ ~Truthy(SearchNodes(op.reply.body))

\* search and editBug never resolve with an undefined value or an empty
\* sequence
NoEmptyCases ==
  \A i \in DOMAIN ops :
    (ops[i].kind \in {"search", "editBug"} /\ ops[i].dfrd.state = "resolved") =>
      /\ Truthy(ops[i].dfrd.value)
      /\ ops[i].dfrd.value.tag = "array" => Len(ops[i].dfrd.value.val) > 0

\* C12 as stated: when the case node or sequence is absent or empty, search
\* rejects with UnknownError or BugNotFoundError and editBug rejects with
\* UnknownError; neither resolves with an empty sequence or an undefined
\* value.
C12_NoCaseIsUnknown ==
  /\ \A i \in DOMAIN ops :
       /\ SearchWithoutCase(ops[i]) =>
            /\ ops[i].dfrd.state = "rejected"
            /\ \/ ops[i].dfrd.value = MODULE_ERRORS.unknown
               \/ ops[i].dfrd.value = MODULE_ERRORS.bugNotFound
       /\ EditBugWithoutCase(ops[i]) => ops[i].dfrd = Rejected(MODULE_ERRORS.unknown)
  /\ NoEmptyCases

\* C12, amended: when the case node or sequence is absent or empty, search
\* rejects with UnknownError or BugNotFoundError and editBug rejects with an
\* Error whose message is MODULE_ERRORS.xmlParseError; neither resolves with
\* an empty sequence or an undefined value.
C12_NoCaseRejects ==
  /\ \A i \in DOMAIN ops :
       /\ SearchWithoutCase(ops[i]) =>
            /\ ops[i].dfrd.state = "rejected"
            /\ \/ ops[i].dfrd.value = MODULE_ERRORS.unknown
               \/ ops[i].dfrd.value = MODULE_ERRORS.bugNotFound
       /\ EditBugWithoutCase(ops[i]) =>
            ops[i].dfrd = Rejected(ErrorObj(MODULE_ERRORS.xmlParseError))
  /\ NoEmptyCases

\* a search() answered with <cases count="0"></cases> and rejected
C12_Witness ==
  \E i \in DOMAIN ops :
    /\ SearchWithoutCase(ops[i])
    /\ Get(ResponseOf(ops[i].reply.body), "cases") = NoCases
    /\ ops[i].dfrd.state = "rejected"

\* C13: for every operation that receives a response body from the
\* transport, a body that is not parseable XML leaves the operation's promise
\* rejected with MODULE_ERRORS.xmlParseError.
C13_UnparseableRejects ==
  \A i \in DOMAIN ops :
    (Answered(ops[i]) /\ ~ops[i].reply.body.parsed) =>
      ops[i].dfrd = Rejected(MODULE_ERRORS.xmlParseError)

\* op is a logon() or listFilters() answered with an error-free response
\* that lacks the field the operation reads: token, or filters with its
\* filter children
LacksExpectedField(op) ==
  /\ Answered(op)
  /\ ErrorFree(op.reply.body)
  /\ \/ op.kind = "logon" /\ IsUndef(Get(ResponseOf(op.reply.body), "token"))
     \/ op.kind = "listFilters" /\ ~Truthy(FilterNodesOf(op.reply.body))

\* C14: a logon() or listFilters() answered with a well-formed response
\* that has neither an error field nor the expected field leaves the promise
\* rejected with MODULE_ERRORS.unknown.
C14_NoFieldIsUnknown ==
  \A i \in DOMAIN ops :
    LacksExpectedField(ops[i]) => ops[i].dfrd = Rejected(MODULE_ERRORS.unknown)

\* C15: setCurrentFilter(), with a token stored and no transport error,
\* resolves with true when the parsed response has no error field, and is
\* rejected with the error field, never resolved, when it has one.
C15_SetCurrentFilterAck ==
  \A i \in DOMAIN ops :
    (ops[i].kind = "setCurrentFilter" /\ Truthy(ops[i].token) /\ Answered(ops[i])) =>
      /\ ErrorFree(ops[i].reply.body) => ops[i].dfrd = Resolved(Bool(TRUE))
      /\ HasErrorField(ops[i].reply.body) =>
           ops[i].dfrd = Rejected(Get(ResponseOf(ops[i].reply.body), "error"))

\* a setCurrentFilter() answered with an error field and rejected, after
\* the callback went on to call resolve(true)
C15_Witness ==
  \E i \in DOMAIN ops :
    /\ ops[i].kind = "setCurrentFilter"
    /\ Truthy(ops[i].token)
    /\ Answered(ops[i])
    /\ HasErrorField(ops[i].reply.body)
    /\ ops[i].dfrd.state = "rejected"
    /\ last = Ran("callback", i)

\* COLS, "all possible fields returned for a case", of the earlier versions
ColumnNames ==
  <<"dFixFor", "dtClosed", "dtDue", "dtLastUpdated", "dtLastView",
     "dtOpened", "dtResolved", "fForwarded", "fOpen", "fReplied",
     "fScoutStopReporting", "fSubscribed", "hrsCurrentEst", "hrsElapsed",
     "hrsOrigEst", "iPersonClosedBy", "ixArea", "ixBug", "ixBugChildren",
     "ixBugEventLastView", "ixBugEventLatest", "ixBugEventlatestText",
     "ixBugParent", "ixCategory", "ixDiscussTopic", "ixFixFor", "ixGroup",
     "ixMailbox", "ixPersonAssignedTo", "ixPersonLastEditedBy",
     "ixPersonOpenedBy", "ixPersonResolvedBy", "ixPriority", "ixProject",
     "ixRelatedBugs", "ixStatus", "sArea", "sCategory", "sComputer",
     "sEmailAssignedTo", "sFixFor", "sLatestTextSummary", "sOriginalTitle",
     "sPersonAssignedTo", "sPriority", "sProject", "sReleaseNotes",
     "sScoutDescription", "sScoutMessage", "sStatus", "sTicket", "sTitle",
     "sVersion", "tags">>

COLS == Arr([i \in DOMAIN ColumnNames |-> Txt(<<ColumnNames[i]>>)])

\* op is the search that getBug(id) makes when it is called without cols
\* while a token is stored
IsGetBugWithoutCols(op) ==
  /\ op.kind = "search"
  /\ Truthy(op.token)
  /\ op.args.val.max = Num(1)
  /\ IsUndef(op.args.val.cols)

\* C16: getBug(id) called without cols requests every case column, not only
\* the default columns.
C16_GetBugEveryColumn ==
  \A i \in DOMAIN ops :
    IsGetBugWithoutCols(ops[i]) =>
      /\ Get(ops[i].request, "cols") = Txt(Join(COLS.val, <<Comma>>))
      /\ Get(ops[i].request, "cols") # Txt(Join(DEFAULT_COLS.val, <<Comma>>))

\* sTitle,sStatus,sPersonAssignedTo,sFixFor,tags,sEmailAssignedTo
DefaultColumnList ==
  Txt(<<"sTitle", ",", "sStatus", ",", "sPersonAssignedTo", ",", "sFixFor", ",",
        "tags", ",", "sEmailAssignedTo">>)

\* op is a search() that handed a request to the transport
SearchSent(op) == op.kind = "search" /\ ~IsUndef(op.request)

\* the request of op carries the default columns when cols was omitted and
\* the caller's columns, joined by commas, otherwise
SendsCols(op) ==
  Get(op.request, "cols") =
    IF IsUndef(op.args.val.cols) THEN DefaultColumnList
    ELSE Txt(Join(op.args.val.cols.val, <<",">>))

\* C17 as stated: search sends the default column list when cols is omitted
\* and max = 20 when max is omitted; any cols list or max value the caller
\* supplies is sent in place of the default.
C17_SuppliedValuesSent ==
  \A i \in DOMAIN ops :
    SearchSent(ops[i]) =>
      /\ SendsCols(ops[i])
      /\ Get(ops[i].request, "max") =
           IF IsUndef(ops[i].args.val.max) THEN Num(20) ELSE ops[i].args.val.max

\* C17, amended: search sends the default column list when cols is omitted
\* and max = 20 when max is omitted or 0; any cols list and any max other
\* than 0 the caller supplies is sent in place of the default.
C17_TruthyValuesSent ==
  \A i \in DOMAIN ops :
    SearchSent(ops[i]) =>
      /\ SendsCols(ops[i])
      /\ Get(ops[i].request, "max") =
           IF IsUndef(ops[i].args.val.max) \/ ops[i].args.val.max = Num(0)
           THEN Num(20)
           ELSE ops[i].args.val.max

\* a search() called with a column list and max = 5, which its request carries
C17_Witness ==
  \E i \in DOMAIN ops :
    /\ SearchSent(ops[i])
    /\ ops[i].args.val.cols = Arr(<<Txt(<<"sFooBar">>)>>)
    /\ ops[i].args.val.max = Num(5)
    /\ Get(ops[i].request, "cols") = Txt(<<"sFooBar">>)
    /\ Get(ops[i].request, "max") = Num(5)

\* getToken(): the value of the slot, null when it is empty
getToken == cache

\* the operations that read the slot when they are called
Readers == {"logon", "logoff", "listFilters", "setCurrentFilter", "search", "editBug"}

FreshLogon(op, T) ==
  /\ op.kind = "logon"
  /\ ~Truthy(op.token)
  /\ Answered(op)
  /\ IsTokenResponse(op.reply.body, T)

\* C19: two logon() calls both made while the store is empty both send a
\* request; each resolves with the token of its own response and cached:
\* false; once both callbacks have run, the store holds the token of the
\* callback that ran last.
C19_LastLogonWins ==
  \A i, j \in DOMAIN ops :
    (i # j /\ ops[i].kind = "logon" /\ ops[j].kind = "logon"
       /\ ~Truthy(ops[i].token) /\ ~Truthy(ops[j].token)) =>
      /\ ops[i].request = logonRequest /\ ops[i].sent = 1
      /\ \A Ti, Tj \in Tokens :
           /\ FreshLogon(ops[i], Ti) => ops[i].dfrd = Resolved(LogonResult(Ti, FALSE))
           /\ (FreshLogon(ops[i], Ti) /\ FreshLogon(ops[j], Tj)
                 /\ last = Ran("callback", j)) => cache = Tj

\* two logons outstanding together and answered in the reverse order: the
\* second got t1 first, the first got t2 last, and the store holds t2
C19_Witness ==
  /\ Len(ops) = 2
  /\ FreshLogon(ops[1], Txt(<<"t2">>))
  /\ FreshLogon(ops[2], Txt(<<"t1">>))
  /\ ops[1].dfrd = Resolved(LogonResult(Txt(<<"t2">>), FALSE))
  /\ ops[2].dfrd = Resolved(LogonResult(Txt(<<"t1">>), FALSE))
  /\ last = Ran("callback", 1)
  /\ cache = Txt(<<"t2">>)

\* C20: every invocation of a public operation calls the transport at most
\* once: none without having made a request, and no second one after its
\* callback ran, whether that met a transport error, a service error, a
\* parse failure or an unexpected response.
C20_AtMostOneRequest ==
  \A i \in DOMAIN ops :
    /\ ops[i].sent <= 1
    /\ IsUndef(ops[i].request) => ops[i].sent = 0
    /\ ops[i].reply.got => ops[i].sent = 1

\* a callback that met a transport error and rejected, with the one request
\* of its invocation behind it
C20_Witness ==
  \E i \in DOMAIN ops :
    /\ last = Ran("callback", i)
    /\ Truthy(ops[i].reply.err)
    /\ ops[i].dfrd.state = "rejected"
    /\ ops[i].sent = 1

\* C21: once the transport callback of an operation has run, with any error
\* or any response body, the operation's promise is settled, and the
\* callback has not raised an exception in place of rejecting.
C21_CallbackSettles ==
  \A i \in DOMAIN ops :
    ops[i].reply.got => ops[i].dfrd.state # "pending" /\ ~ops[i].threw

\* C22: a logon() made while a token T is stored leaves T in the store: the
\* callback of that call, run while the store still holds T, leaves T there.
C22_CachedLogonKeepsToken ==
  [][(/\ last'.handler = "callback"
      /\ ops[last'.i].kind = "logon"
      /\ Truthy(ops[last'.i].token)
      /\ cache = ops[last'.i].token) => cache' = cache]_vars

\* op is a search() or editBug() answered with an error-free response that
\* holds a sequence of case nodes
CaseAnswered(op) ==
  /\ op.kind \in {"search", "editBug"}
  /\ Answered(op)
  /\ ErrorFree(op.reply.body)
  /\ (IF op.kind = "search" THEN SearchNodes(op.reply.body)
      ELSE EditNodes(op.reply.body)).tag = "array"

LacksFixFor(node) == IsUndef(Get(node, "sFixFor"))

\* C23: when a case node has no sFixFor child, search and editBug still
\* produce the Case of every node, and the Case of such a node has no fixFor
\* field.
C23_FixForOptional ==
  \A i \in DOMAIN ops :
    (CaseAnswered(ops[i]) /\ \E j \in DOMAIN NodesOf(ops[i]) : LacksFixFor(NodesOf(ops[i])[j])) =>
      /\ ops[i].dfrd.state = "resolved"
      /\ Len(CasesOf(ops[i])) = Len(NodesOf(ops[i]))
      /\ \A j \in DOMAIN NodesOf(ops[i]) :
           LacksFixFor(NodesOf(ops[i])[j]) => "fixFor" \notin DOMAIN CasesOf(ops[i])[j].val

\* the operations attribute of a case node, as its pieces
OperationsOf(node) == Get(Get(node, "$"), "operations").val

\* the parts of a string of pieces between its commas, in order
RECURSIVE Parts(_, _)
Parts(s, part) ==
  IF s = <<>> THEN <<part>>
  ELSE IF Head(s) = "," THEN <<part>> \o Parts(Tail(s), <<>>)
  ELSE Parts(Tail(s), Append(part, Head(s)))

\* C24 as stated: the operations field of a Case is the node's operations
\* attribute split at commas, in the server's order, every token trimmed.
C24_OperationsTrimmed ==
  \A i \in DOMAIN ops :
    (ops[i].kind \in {"search", "editBug"} /\ ops[i].dfrd.state = "resolved") =>
      \A j \in DOMAIN CasesOf(ops[i]) :
        LET parts == Parts(OperationsOf(NodesOf(ops[i])[j]), <<>>)
        IN CasesOf(ops[i])[j].val.operations
             = Arr([k \in DOMAIN parts |-> Txt(Trim(parts[k]))])

\* C24, amended: the operations field of a Case is the node's operations
\* attribute split at commas, in the server's order, every token as it
\* stands between the commas, blanks included.
C24_OperationsSplit ==
  \A i \in DOMAIN ops :
    (ops[i].kind \in {"search", "editBug"} /\ ops[i].dfrd.state = "resolved") =>
      \A j \in DOMAIN CasesOf(ops[i]) :
        LET parts == Parts(OperationsOf(NodesOf(ops[i])[j]), <<>>)
        IN CasesOf(ops[i])[j].val.operations
             = Arr([k \in DOMAIN parts |-> Txt(parts[k])])

\* the Case of <case operations="edit, assign ">: "edit" and " assign "
C24_Witness ==
  \E i \in DOMAIN ops :
    /\ ops[i].kind \in {"search", "editBug"}
    /\ ops[i].dfrd.state = "resolved"
    /\ ops[i].dfrd.value.tag = "object"
    /\ ops[i].dfrd.value.val["_raw"] = SpacedCase
    /\ ops[i].dfrd.value.val.operations
         = Arr(<<Txt(<<"edit">>), Txt(<<Blank, "assign", Blank>>)>>)

\* the node names a person assigned but no e-mail address
HalfAssignee(node) ==
  Truthy(Get(node, "sPersonAssignedTo")) /\ IsUndef(Get(node, "sEmailAssignedTo"))

\* the value of a residual field is a sequence of several elements, or a
\* length-1 sequence that holds a node instead of a string
Structured(value) ==
  /\ value.tag = "array"
  /\ Len(value.val) > 1 \/ (Len(value.val) = 1 /\ value.val[1].tag = "object")

\* C25: a residual field whose value is a sequence of more than one element
\* or a nested structure is copied onto the Case unmodified, and the
\* extraction completes (stated for nodes that have sFixFor and a whole
\* assignee, so that nothing else stands in the way).
C25_StructuredCopied ==
  \A i \in DOMAIN ops :
    (/\ CaseAnswered(ops[i])
     /\ \A j \in DOMAIN NodesOf(ops[i]) :
          ~LacksFixFor(NodesOf(ops[i])[j]) /\ ~HalfAssignee(NodesOf(ops[i])[j])) =>
      /\ ops[i].dfrd.state = "resolved"
      /\ \A j \in DOMAIN NodesOf(ops[i]) :
           LET node == NodesOf(ops[i])[j]
           IN \A k \in DOMAIN node.val \ ModelledKids :
                Structured(node.val[k]) => Get(CasesOf(ops[i])[j], k) = node.val[k]

\* the text of an error field: of its one element, or of the node it holds
ErrorText(field) ==
  IF field.val[1].tag = "string" THEN field.val[1] ELSE Get(field.val[1], "_")

\* C26: when a response holds an error field with text E, the reason the
\* promise is rejected with is the text E itself, not the length-1
\* sequence or the node around it.
C26_ReasonIsErrorText ==
  \A i \in DOMAIN ops :
    (Answered(ops[i]) /\ HasErrorField(ops[i].reply.body)) =>
      ops[i].dfrd = Rejected(ErrorText(Get(ResponseOf(ops[i].reply.body), "error")))

\* the field of the response that the operation of this kind extracts
ExpectedField(kind) ==
  CASE kind = "logon" -> "token"
    [] kind = "listFilters" -> "filters"
    [] kind = "search" -> "cases"
    [] kind = "editBug" -> "case"

\* op was answered with a response that has an error field and lacks the
\* field its operation extracts
ErrorWithoutField(op) ==
  /\ op.kind \in {"logon", "listFilters", "search", "editBug"}
  /\ Answered(op)
  /\ HasErrorField(op.reply.body)
  /\ IsUndef(Get(ResponseOf(op.reply.body), ExpectedField(op.kind)))

\* C27: for logon, listFilters, search and editBug, a response that has an
\* error field and lacks the expected field is reported as the service
\* error, never as an unknown, bug-not-found or xml-parse error; and the
\* callback of a logon answered with an error field stores no token, even
\* when the response has a token field too.
C27_ErrorCheckFirst ==
  /\ [](\A i \in DOMAIN ops :
          ErrorWithoutField(ops[i]) =>
            ops[i].dfrd = Rejected(Get(ResponseOf(ops[i].reply.body), "error")))
  /\ [][(/\ last'.handler = "callback"
          /\ ops'[last'.i].kind = "logon"
          /\ HasErrorField(ops'[last'.i].reply.body)) => cache' = cache]_vars

\* the node has a residual child that holds a node instead of a string
NestedResidual(node) ==
  \E k \in DOMAIN node.val \ ModelledKids :
    /\ node.val[k].tag = "array"
    /\ Len(node.val[k].val) = 1
    /\ node.val[k].val[1].tag = "object"

\* C28: a case node without sPersonAssignedTo yields a Case with neither
\* assignedTo nor assignedToEmail, a node with it yields assignedTo equal to
\* its trimmed text, and the extraction completes in both cases, also when
\* only one of sPersonAssignedTo and sEmailAssignedTo is present (stated
\* for nodes that have sFixFor and no nested residual child).
C28_AssigneeOptional ==
  \A i \in DOMAIN ops :
    (/\ CaseAnswered(ops[i])
     /\ \A j \in DOMAIN NodesOf(ops[i]) :
          ~LacksFixFor(NodesOf(ops[i])[j]) /\ ~NestedResidual(NodesOf(ops[i])[j])) =>
      /\ ops[i].dfrd.state = "resolved"
      /\ \A j \in DOMAIN NodesOf(ops[i]) :
           LET node == NodesOf(ops[i])[j]
               bug == CasesOf(ops[i])[j]
           IN IF IsUndef(Get(node, "sPersonAssignedTo"))
              THEN {"assignedTo", "assignedToEmail"} \cap DOMAIN bug.val = {}
              ELSE Get(bug, "assignedTo")
                     = Txt(Trim(Get(node, "sPersonAssignedTo").val[1].val))

\* the tag children of the tags element of a case node (Undef: none)
TagsOf(node) == Get(Idx(Get(node, "tags"), 0), "tag")

\* C29: a Case has a tags field only if the tags element of its node holds
\* at least one tag, and then tags is the tag texts joined with ', ' in the
\* server's order; a tags element without tag children yields a Case
\* without a tags field (stated for nodes that have sFixFor, a whole
\* assignee and no nested residual child).
C29_TagsOnlyWhenTagged ==
  \A i \in DOMAIN ops :
    (/\ CaseAnswered(ops[i])
     /\ \A j \in DOMAIN NodesOf(ops[i]) :
          /\ ~LacksFixFor(NodesOf(ops[i])[j])
          /\ ~HalfAssignee(NodesOf(ops[i])[j])
          /\ ~NestedResidual(NodesOf(ops[i])[j])) =>
      /\ ops[i].dfrd.state = "resolved"
      /\ \A j \in DOMAIN NodesOf(ops[i]) :
           LET tags == TagsOf(NodesOf(ops[i])[j])
               bug == CasesOf(ops[i])[j]
           IN IF tags.tag = "array" /\ Len(tags.val) > 0
              THEN Get(bug, "tags") = Txt(Join(tags.val, <<",", " ">>))
              ELSE "tags" \notin DOMAIN bug.val

\* C30: forgetToken() or setToken(t) called while a logon request is in
\* flight does not cancel that logon: when its callback then runs on a
\* response with token T, it leaves T in the store, whatever the call before
\* it had left there.
C30_InFlightLogonStores ==
  [][\A T \in Tokens :
       (/\ last.handler \in {"forgetToken", "setToken"}
        /\ last'.handler = "callback"
        /\ ops'[last'.i].kind = "logon"
        /\ Answered(ops'[last'.i])
        /\ IsTokenResponse(ops'[last'.i].reply.body, T)) => cache' = T]_vars

\* a logon made with the store empty; t1 was set while its request was in
\* flight (the operation called next read t1); its callback, which ran
\* after that, left t2 in the store
C30_Witness ==
  /\ Len(ops) = 2
  /\ FreshLogon(ops[1], Txt(<<"t2">>))
  /\ ops[2].token = Txt(<<"t1">>)
  /\ last = Ran("callback", 1)
  /\ cache = Txt(<<"t2">>)

====
